---- MODULE Spec2Model ----
(***************************************************************************)
(* NAVO knowledge assistant: the query pipeline of query_processor.py and  *)
(* the three source clients it fans out to.                                *)
(*                                                                         *)
(* Spec         one QueryProcessor serving queries one after another; a    *)
(*              step is the code between two await points of process_query *)
(*              (the gather of the searches, the chat-completion call).    *)
(* SpecClients  the search method of each source client, applied to every  *)
(*              bounded outcome of its environment (token endpoint, HTTP   *)
(*              status, response body, file system).                       *)
(* SpecConfidence, SpecContext, SpecCard                                   *)
(*              the functions of the answer path (the confidence formula,  *)
(*              the two context builders, create_response_card), each      *)
(*              applied to bounded arguments.                              *)
(* SpecBot      the Teams bot of bot.py from its construction on, one step *)
(*              per await segment of on_message_activity.                  *)
(* SpecCache, SpecCacheKeys                                                *)
(*              the two-tier response cache of navo/core/cache_manager.py: *)
(*              two concurrent callers on one key, one step per await      *)
(*              segment; one caller on every key.                          *)
(* SpecLifecycle                                                           *)
(*              start and stop of the background loops of                  *)
(*              navo/core/knowledge_lifecycle_manager.py.                  *)
(* SpecPermissions                                                         *)
(*              the admin list and the permission cache of                 *)
(*              navo/core/permission_manager.py.                           *)
(* SpecNormalize, SpecSearchSource                                         *)
(*              _normalize_text of navo/core/query_processor.py and the    *)
(*              permission filter of navo/core/source_coordinator.py, each *)
(*              applied to bounded arguments.                              *)
(*                                                                         *)
(* Confidence values are kept in units of 1/2000, so that                  *)
(* len(context) / 2000 is the integer len(context).                        *)
(***************************************************************************)
EXTENDS Integers, Sequences, FiniteSets, TLC

VARIABLES
    config,           \* client -> the state of its settings in the environment
    enabled,          \* client -> its enabled flag, set by the client's __init__
    pc,               \* where process_query is: idle, gather, llm, done
    search_calls,     \* client -> calls of search made by this invocation
    search_results,   \* client -> the outcome of its search task
    finished,         \* the clients whose search task has finished, in the
                      \* order in which they finished
    all_results,      \* the merged result list of this invocation
    llm_calls,        \* chat-completion calls made by this invocation
    ai_response,      \* what _generate_ai_response returned
    response,         \* what process_query handed to its caller
    sp_token,         \* SharePointClient: access_token, token_expires_at, and
                      \* the tokens granted and seen rejected so far
    now,              \* the wall clock of the SharePoint client
    last_search,      \* the latest client search: its environment and outcome
    call,             \* a call of a function of the answer path: its
                      \* arguments and, once it has run, what it returned
    api_key,          \* whether OPENAI_API_KEY is set in the environment
    query_processor,  \* NAVOBot.query_processor
    bot_pc,           \* where the bot is: new, idle, processing, saving
    message,          \* the chat message of the current turn
    replies,          \* the activities sent in the current turn
    escaped,          \* an exception has left on_message_activity in this turn
    turns,            \* chat messages accepted so far
    answers,          \* Answers of process_query sent to the chat so far
    memory_cache,     \* CacheManager.memory_cache: key -> CacheEntry
    redis,            \* the Redis store: key -> value and expiry
    redis_hits,       \* the Redis store: key -> its ":hits" counter
    cache_tasks,      \* the coroutines using the cache, each with its call
    utcnow,           \* the clock of the cache
    cache_writes,     \* calls of cache_response made so far
    lifecycle_tasks,  \* KnowledgeLifecycleManager.lifecycle_tasks
    bg_tasks,         \* the asyncio tasks created so far: task -> its state
    lifecycle_pc,     \* the last call on the lifecycle manager and its position
    starts,           \* calls of start_proactive_management made so far
    admin_users,      \* PermissionManager.admin_users
    permission_cache, \* PermissionManager.permission_cache: user -> entry
    reported          \* user -> what the last get_user_permissions returned

vars == <<config, enabled, pc, search_calls, search_results, finished,
          all_results, llm_calls, ai_response, response, sp_token, now,
          last_search, call, api_key, query_processor, bot_pc, message, replies,
          escaped, turns, answers, memory_cache, redis, redis_hits, cache_tasks, utcnow,
          cache_writes, lifecycle_tasks, bg_tasks, lifecycle_pc, starts,
          admin_users, permission_cache, reported>>

qpVars == <<config, enabled, pc, search_calls, search_results, finished,
            all_results, llm_calls, ai_response, response>>

\* process_query's own variables: the clients' flags apart.
runVars == <<pc, search_calls, search_results, finished, all_results,
             llm_calls, ai_response, response>>

clVars == <<sp_token, now, last_search>>

fnVars == <<call>>

botVars == <<api_key, query_processor, bot_pc, message, replies, escaped, turns,
            answers>>

cacheVars == <<memory_cache, redis, redis_hits, cache_tasks, utcnow, cache_writes>>

lifeVars == <<lifecycle_tasks, bg_tasks, lifecycle_pc, starts>>

permVars == <<admin_users, permission_cache, reported>>

\* The variables of src/navo/core.
coreVars == <<cacheVars, lifeVars, permVars>>

----------------------------------------------------------------------------
\* Bounds of the model.

\* Results one search returns at most (the code's limit is 10).
MaxResults == 2

\* Merged results handed to _generate_ai_response and _prepare_context.
MaxMerged == 7

\* The context lengths tried are 40, 60, ..., 40 + 20 * MaxContextSteps.
MaxContextSteps == 14

\* Characters of a content longer than the 800 that _prepare_context keeps.
LongLen == 801

\* Documents handed to _build_context; the short contents of such documents
\* have 17..MaxContentChars characters.
MaxDocs == 3

MaxContentChars == 20

\* Sources handed to create_response_card.
MaxCardSources == 5

\* Chat messages the bot is sent.
MaxTurns == 4

\* The span of the cache's clock, calls of cache_response, hits counted on
\* one entry, and the configured memory_cache_max_size.
MaxClock == 2

MaxWrites == 2

MaxHits == 1

MemoryCacheMaxSize == 1

\* Calls of start_proactive_management.
MaxStarts == 2

\* Characters of a text handed to _normalize_text.
MaxTextChars == 4

\* Results one source returns to _search_source.
MaxSourceResults == 4

\* Characters of a well-formed content string and of a title.
TextLen == 120

TitleLen == 5

\* Items in one search response, files in the local docs folder.
MaxItems == 2

\* The clock of the SharePoint client runs from 0 to MaxTime, a token
\* endpoint grants 1..MaxExpiresIn; the unit is 300 seconds.
MaxTime == 2

MaxExpiresIn == 2

\* Tokens the token endpoint grants.
MaxTokens == 2

----------------------------------------------------------------------------
\* Helpers.

Min(a, b) == IF a < b THEN a ELSE b

Range(s) == {s[i] : i \in 1..Len(s)}

Take(s, n) == SubSeq(s, 1, Min(n, Len(s)))

----------------------------------------------------------------------------
\* The source clients as the query processor sees them.

\* self.sources, in declared order.
Sources == <<"Confluence", "SharePoint", "LocalDocs">>

Clients == Range(Sources)

\* The client's __init__: enabled is True when every required setting is
\* present (all([...]) for Confluence and SharePoint; LOCAL_DOCS_PATH set and
\* a directory for LocalDocs), False otherwise.
ClientEnabled(settings) == settings = "complete"

\* What the "content" field of a client's result can be. Confluence passes
\* the body through _extract_text_content and LocalDocs slices the file text,
\* so both yield strings ("text"), except that _extract_text_content hands a
\* body that is a JSON array back as it came ("list": a value with len() and
\* without replace()). SharePoint copies hit["summary"] as it came in the
\* JSON: a string, an array, or a number ("num": a value without len()).
ContentKinds(c) ==
    CASE c = "Confluence" -> {"text", "list"}
      [] c = "SharePoint" -> {"text", "num", "list"}
      [] OTHER -> {"text"}

\* The attributes of one result: its content, and whether the (one word)
\* query occurs among the words of the content.
ResultAttrs(c) ==
    {a \in [content : ContentKinds(c), hit : BOOLEAN] :
        a.content # "text" => ~a.hit}

\* The result lists a search of client c can return. A result's title is its
\* position in the client's list, which with the source name identifies it.
ResultLists(c) ==
    UNION {
        {[i \in 1..n |-> [source |-> c, title |-> i,
                          content |-> f[i].content, hit |-> f[i].hit]] :
            f \in [1..n -> ResultAttrs(c)]} :
        n \in 0..MaxResults}

NotInvoked == [kind |-> "none", items |-> <<>>]

Pending == [kind |-> "pending", items |-> <<>>]

Raised == [kind |-> "exception", items |-> <<>>]

Returned(items) == [kind |-> "list", items |-> items]

\* Relevance of a result to a one-word query: matched words / query words.
KeywordRelevance(r) == IF r.hit THEN 100 ELSE 0

----------------------------------------------------------------------------
\* QueryProcessor.

\* A comprehension that puts a search task in the list for every source,
\* whatever its enabled flag.
SearchTasksOfAllSources(en) == Sources

\* search_tasks: one task per enabled source, in the order of self.sources.
SearchTasks(en) == SelectSeq(Sources, LAMBDA c : en[c])

\* An emptiness test of the task list that never sees it empty.
NoTasksNeverTrue(tasks) == Len(tasks) < 0

\* "if not search_tasks".
NoTasks(tasks) == tasks = <<>>

\* A wait that resumes process_query as soon as one task has finished.
GatherCompleteOnFirst(outcome) ==
    \E c \in Clients : outcome[c] \notin {NotInvoked, Pending}

\* The await of the gather resumes once no task is still running: gather has
\* no timeout and cancels nothing.
GatherComplete(outcome) == \A c \in Clients : outcome[c] # Pending

\* A gather that hands the outcomes back in the order the tasks finished in.
GatherAsCompleted(tasks, outcome) ==
    [raises |-> FALSE,
     results |-> [i \in 1..Len(finished) |-> outcome[finished[i]]]]

\* A gather without return_exceptions: the first exception among the tasks is
\* raised into process_query and the other outcomes are lost to it.
GatherRaisingFirstException(tasks, outcome) ==
    [raises |-> \E i \in 1..Len(tasks) : outcome[tasks[i]].kind = "exception",
     results |-> [i \in 1..Len(tasks) |-> outcome[tasks[i]]]]

\* asyncio.gather(*search_tasks, return_exceptions=True): the outcomes in task
\* order, an exception being one more outcome; nothing is raised into
\* process_query.
Gather(tasks, outcome) ==
    [raises |-> FALSE,
     results |-> [i \in 1..Len(tasks) |-> outcome[tasks[i]]]]

\* The loop that combines the gathered outcomes: lists are appended,
\* exceptions are logged and skipped.
RECURSIVE Combine(_)
Combine(gathered) ==
    IF gathered = <<>> THEN <<>>
    ELSE (IF Head(gathered).kind = "list" THEN Head(gathered).items ELSE <<>>)
         \o Combine(Tail(gathered))

\* An emptiness test of the merged list that never sees it empty.
NoResultsNeverTrue(results) == Len(results) < 0

\* "if not all_results".
NoResults(results) == results = <<>>

\* Length of the content as len() sees it, for the kinds that have a length:
\* a string of TextLen characters ("text"), of exactly 800 ("edge"), of
\* LongLen ("long"), a two-element array.
ContentLen(r) ==
    CASE r.content = "text" -> TextLen
      [] r.content = "edge" -> 800
      [] r.content = "long" -> LongLen
      [] OTHER -> 2

\* A loop over all of search_results.
ContextResultsAll(results) == results

\* _prepare_context reads the first five results; len(content) raises on a
\* content without a length.
ContextResults(results) == Take(results, 5)

PrepareContextRaises(results) ==
    \E i \in 1..Len(ContextResults(results)) :
        ContextResults(results)[i].content = "num"

\* len(source) of the three source names.
SourceLen(c) == IF c = "LocalDocs" THEN 9 ELSE 10

\* One context part: "\nDocument i: title (Source: source)\nContent: ...\n---",
\* the content cut to 800 characters plus "..." when longer.
ContextPartLen(r) ==
    38 + TitleLen + SourceLen(r.source)
       + (IF ContentLen(r) > 800 THEN 803 ELSE ContentLen(r))

RECURSIVE SumParts(_)
SumParts(s) == IF s = <<>> THEN 0 ELSE ContextPartLen(Head(s)) + SumParts(Tail(s))

\* len("\n".join(context_parts)).
ContextLen(results) ==
    LET parts == ContextResults(results)
    IN  IF parts = <<>> THEN 0 ELSE SumParts(parts) + (Len(parts) - 1)

\* A result term that shrinks as results are added.
ConfidenceFallingWithResults(n, contextLen) ==
    Min(1900, 1200 + (600 - Min(600, 200 * n)) + Min(200, contextLen))

\* The sum of the three terms without the outer min(0.95, ...).
ConfidenceUncapped(n, contextLen) ==
    1200 + (IF 600 < 200 * n THEN 600 ELSE 200 * n)
         + (IF 200 < contextLen THEN 200 ELSE contextLen)

\* context_parts of _prepare_context: for each of the first five results its
\* number, title and source, the characters of its content that are kept and
\* whether "..." follows them.
PrepareContext(results) ==
    LET top == ContextResults(results)
    IN  [i \in 1..Len(top) |->
            [document |-> i, title |-> top[i].title, source |-> top[i].source,
             content_chars |-> Min(ContentLen(top[i]), 800),
             ellipsis |-> ContentLen(top[i]) > 800]]

\* min(0.95, 0.6 + min(0.3, 0.1 * n) + min(0.1, len(context) / 2000)).
Confidence(n, contextLen) ==
    Min(1900, 1200 + Min(600, 200 * n) + Min(200, contextLen))

DegradedConfidence == 800

NoAiResponse == [answer |-> "none", confidence |-> 0]

\* The except branch of _generate_ai_response.
DegradedResponse == [answer |-> "degraded", confidence |-> DegradedConfidence]

\* An except branch that issues the chat-completion call a second time.
LLMCallsRetried(calls) == calls + 1

\* The chat-completion calls made once the awaited call has failed: the
\* except branch of _generate_ai_response answers without calling again.
LLMCallsAfterFailure(calls) == calls

\* _format_sources: content.replace raises on a non-empty content that is no
\* string.
FormatSourcesRaises(results) ==
    \E i \in 1..Len(results) : results[i].content # "text"

FormatSources(results) ==
    [i \in 1..Len(results) |->
        [title |-> results[i].title, source_type |-> results[i].source,
         excerpt |-> results[i].content]]

\* A slice as wide as the one _prepare_context takes.
TopSourcesFive(results) == Take(results, 5)

\* A slice of the last three results.
TopSourcesLast(results) == SubSeq(results, Len(results) - Min(3, Len(results)) + 1, Len(results))

\* all_results[:3].
TopSources(results) == Take(results, 3)

Answer(text, sources, confidence, elapsed) ==
    [answer |-> text, sources |-> sources, confidence |-> confidence,
     processing_time |-> elapsed]

NoResponse == [status |-> "none", value |-> Answer("none", <<>>, 0, 0)]

NoSourcesAnswer(elapsed) == Answer("no_sources_configured", <<>>, 0, elapsed)

NotFoundAnswer(elapsed) == Answer("not_found", <<>>, 0, elapsed)

ErrorAnswer(elapsed) == Answer("error", <<>>, 0, elapsed)

\* A handler that lets the exception through to the caller.
ExceptHandlerReraising(elapsed) ==
    [status |-> "raised", value |-> Answer("none", <<>>, 0, 0)]

\* The "except Exception" of process_query: whatever was raised inside the try
\* block becomes the generic error Answer.
ExceptHandler(elapsed) == [status |-> "returned", value |-> ErrorAnswer(elapsed)]

\* The final return of process_query, run after _generate_ai_response came
\* back with ai.
FinalReturn(ai, results, elapsed) ==
    IF FormatSourcesRaises(TopSources(results))
    THEN ExceptHandler(elapsed)
    ELSE [status |-> "returned",
          value |-> Answer(ai.answer, FormatSources(TopSources(results)),
                           ai.confidence, elapsed)]

----------------------------------------------------------------------------
\* The search method of the three source clients.

\* What a search met: the network call's fate, the HTTP status, the body.
NoEnv == [net |-> "none", status |-> 0, body |-> [kind |-> "none", items |-> <<>>]]

NoSearch == [client |-> "none", reached |-> "none", env |-> NoEnv,
             outcome |-> NotInvoked]

\* The items of a response body. Confluence: a page whose storage body is a
\* string, a page whose storage body is an array, an item that is no object.
\* SharePoint: a hit whose summary is a string, a number or an array, a hit
\* that is no object. LocalDocs: a file that contains the query, one that
\* does not, one that cannot be read.
ItemKinds(c) ==
    CASE c = "Confluence" -> {"text", "list", "malformed"}
      [] c = "SharePoint" -> {"text", "num", "list", "malformed"}
      [] OTHER -> {"match", "nomatch", "unreadable"}

ItemLists(c) == UNION {[1..n -> ItemKinds(c)] : n \in 0..MaxItems}

\* The bodies a 200 response can carry: no JSON at all, JSON that is no
\* object, an object with items, and (SharePoint, whose parser walks nested
\* containers) an object whose items are followed by a broken container.
Bodies(c) ==
    {[kind |-> k, items |-> <<>>] : k \in {"not_json", "not_object"}}
    \cup {[kind |-> "object", items |-> it] : it \in ItemLists(c)}
    \cup (IF c = "SharePoint"
          THEN {[kind |-> "object_broken_tail", items |-> it] : it \in ItemLists(c)}
          ELSE {})

\* The environments of one HTTP search call: the call raises
\* aiohttp.ClientError or times out, or a response comes back with a status
\* and, when the status is 200, a body.
HttpEnvs(c) ==
    {[net |-> n, status |-> 0, body |-> NoEnv.body] : n \in {"ClientError", "TimeoutError"}}
    \cup {[net |-> "response", status |-> st, body |-> NoEnv.body] : st \in {401, 403, 500}}
    \cup {[net |-> "response", status |-> 200, body |-> b] : b \in Bodies(c)}

\* The environments of a walk over the local docs folder.
FsEnvs ==
    {[net |-> "walk_error", status |-> 0, body |-> NoEnv.body]}
    \cup {[net |-> "walk_ok", status |-> 0, body |-> [kind |-> "files", items |-> it]] :
            it \in ItemLists("LocalDocs")}

\* The answers of the token endpoint: a token with its lifetime, a status
\* other than 200, a network error, a 200 body without "access_token".
TokenEnvs ==
    {[kind |-> "granted", expires_in |-> e] : e \in 1..MaxExpiresIn}
    \cup {[kind |-> k, expires_in |-> 0] : k \in {"rejected", "error", "no_token_field"}}

\* The results parsed from the items of a body: an item that cannot be parsed
\* is logged and skipped. A result's title is the position of its item.
RECURSIVE ParseItems(_, _, _)
ParseItems(c, items, i) ==
    IF i > Len(items) THEN <<>>
    ELSE (IF items[i] \in {"malformed", "nomatch", "unreadable"}
          THEN <<>>
          ELSE <<[source |-> c, title |-> i,
                  content |-> (IF items[i] = "match" THEN "text" ELSE items[i]),
                  hit |-> FALSE]>>)
         \o ParseItems(c, items, i + 1)

\* The try block of an HTTP search: the exception it ends with, or the
\* results it returns. Only a 200 response is parsed.
\* ConfluenceClient._parse_search_results has no handler of its own around
\* data.get, SharePointClient._parse_search_results has one and returns what
\* it had collected.
HttpTry(c, env) ==
    IF env.net # "response" THEN [exc |-> env.net, results |-> <<>>]
    ELSE IF env.status # 200 THEN [exc |-> "none", results |-> <<>>]
    ELSE IF env.body.kind = "not_json" THEN [exc |-> "ValueError", results |-> <<>>]
    ELSE IF env.body.kind = "not_object"
         THEN (IF c = "SharePoint"
               THEN [exc |-> "none", results |-> <<>>]
               ELSE [exc |-> "AttributeError", results |-> <<>>])
    ELSE [exc |-> "none", results |-> ParseItems(c, env.body.items, 1)]

\* Handlers that catch aiohttp.ClientError alone.
ConfluenceExceptClientErrorOnly(exc) ==
    IF exc = "ClientError" THEN Returned(<<>>) ELSE Raised

\* "except aiohttp.ClientError" and "except Exception" of
\* ConfluenceClient.search: both log and return [].
ConfluenceExcept(exc) == Returned(<<>>)

\* The same two handlers of SharePointClient.search.
SharePointExcept(exc) == Returned(<<>>)

\* "except Exception" around the walk of LocalDocsClient.search.
LocalDocsExcept(exc) == Returned(<<>>)

\* ConfluenceClient.search.
ConfluenceSearchOutcome(en, env) ==
    IF ~en THEN Returned(<<>>)
    ELSE LET t == HttpTry("Confluence", env)
         IN  IF t.exc = "none" THEN Returned(t.results) ELSE ConfluenceExcept(t.exc)

\* 300 seconds taken off a token's lifetime, in the unit of the clock.
SafetyMargin == 1

\* SharePointClient._get_access_token: the cached token while the clock is
\* before its expiry, else a request to the token endpoint; any failure of
\* the request yields None and leaves the cached fields as they were.
\* Tokens are numbered as the endpoint grants them; 0 is None.
GetAccessToken(tok, t, tokenEnv) ==
    IF tok.access_token # 0 /\ t < tok.token_expires_at
    THEN [token |-> tok.access_token, state |-> tok]
    ELSE IF tokenEnv.kind = "granted"
    THEN [token |-> tok.granted + 1,
          state |-> [tok EXCEPT
                       !.access_token = tok.granted + 1,
                       !.token_expires_at = t + tokenEnv.expires_in - SafetyMargin,
                       !.granted = @ + 1]]
    ELSE [token |-> 0, state |-> tok]

\* A 401 that leaves the token where it is.
SharePointTokenKept(tok, env) == tok

\* SharePointClient.search once it holds a token: a 401 forgets the token.
SharePointTokenAfter(tok, env) ==
    IF env.net = "response" /\ env.status = 401
    THEN [tok EXCEPT !.access_token = 0]
    ELSE tok

SharePointSearchOutcome(env) ==
    LET t == HttpTry("SharePoint", env)
    IN  IF t.exc = "none" THEN Returned(t.results) ELSE SharePointExcept(t.exc)

\* limit of search, its default.
SearchLimit == 10

\* LocalDocsClient.search.
LocalDocsSearchOutcome(en, env) ==
    IF ~en THEN Returned(<<>>)
    ELSE IF env.net = "walk_error" THEN LocalDocsExcept("OSError")
    ELSE Returned(Take(ParseItems("LocalDocs", env.body.items, 1), SearchLimit))

\* No token could be obtained, or the search call was answered 401 or 403.
AuthFailed(search) ==
    \/ search.reached = "no_token"
    \/ search.env.net = "response" /\ search.env.status \in {401, 403}

\* A search that turns its client off once authentication has failed.
EnabledUntilAuthFails(en, search) == en /\ ~AuthFailed(search)

\* The enabled flag after a search: search reads self.enabled and no
\* statement outside __init__ assigns it, whatever the search met.
EnabledAfterSearch(en, search) == en

----------------------------------------------------------------------------
\* src/navo/core/cache_manager.py: CacheManager.

\* query_cache_ttl, in ticks of the cache's clock.
QueryCacheTtl == 2

\* Two coroutines use the cache at the same time.
Tasks == {"t1", "t2"}

\* A query text is a word, written in lower case or with capitals (blanks
\* around the word, which strip() removes, are not told apart from
\* capitals); query.filters is None, an empty dict or a dict of one filter.
\* The query the concurrent callers share.
SharedQueries ==
    {[text |-> [word |-> "deploy", upper |-> FALSE], user_id |-> "alice", filters |-> "None"]}

\* The queries tried: one, the same in capitals and with an empty filter
\* dict, and three that differ from it in the user, the filters, the word.
CacheQueries ==
    {[text |-> [word |-> "deploy", upper |-> FALSE], user_id |-> "alice", filters |-> "None"],
     [text |-> [word |-> "deploy", upper |-> TRUE], user_id |-> "alice", filters |-> "{}"],
     [text |-> [word |-> "deploy", upper |-> FALSE], user_id |-> "bob", filters |-> "None"],
     [text |-> [word |-> "deploy", upper |-> FALSE], user_id |-> "alice", filters |-> "space=ENG"],
     [text |-> [word |-> "rollback", upper |-> FALSE], user_id |-> "alice", filters |-> "None"]}

\* query.text.lower().strip().
NormalizeQueryText(text) == [text EXCEPT !.upper = FALSE]

\* A key made of the query text alone.
QueryCacheKeyOfText(query) ==
    [text |-> NormalizeQueryText(query.text), user_id |-> "", filters |-> "{}"]

\* _generate_query_cache_key: the prefix and the md5 of the JSON of the
\* normalized text, the user id and "filters or {}". The digest is taken
\* to be different for different JSON texts, so the key is the triple.
GenerateQueryCacheKey(query) ==
    [text |-> NormalizeQueryText(query.text), user_id |-> query.user_id,
     filters |-> IF query.filters = "None" THEN "{}" ELSE query.filters]

CacheKeys ==
    [text : [word : {"deploy", "rollback"}, upper : {FALSE}],
     user_id : {"alice", "bob", ""}, filters : {"{}", "space=ENG"}]

NoEntry == [present |-> FALSE]

\* A validity test that takes every entry to be valid.
IsCacheEntryValidAlways(entry, t) == TRUE

\* _is_cache_entry_valid at time t: age < entry.ttl.
IsCacheEntryValid(entry, t) == t - entry.timestamp < QueryCacheTtl

\* Redis GET at time t finds the key: it holds a value that has not expired.
RedisLive(entry, t) == entry.present /\ t < entry.expires_at

\* A memory hit at time t: entry.hit_count += 1, entry.last_accessed = now.
TouchEntry(entry, t) ==
    [entry EXCEPT !.hit_count = @ + 1, !.last_accessed = t]

\* What a lookup returned: the value, where it was found, how long it had
\* been stored when it was read, and whether the lookup met an expired entry.
NoResult ==
    [found |-> FALSE,
     value |-> [query |-> [text |-> "none", user_id |-> "none", filters |-> "none"],
                confidence |-> "none", id |-> 0],
     tier |-> "none", age |-> 0, saw_expired |-> FALSE]

IdleTask == [op |-> "idle", pc |-> "idle", query |-> NoResult.value.query,
             response |-> NoResult.value, result |-> NoResult]

\* CacheManager.__init__: an empty memory cache; an empty Redis database.
InitCache ==
    /\ memory_cache = [k \in CacheKeys |-> NoEntry]
    /\ redis = [k \in CacheKeys |-> NoEntry]
    /\ redis_hits = [k \in CacheKeys |-> -1]
    /\ cache_tasks = [t \in Tasks |-> IdleTask]
    /\ utcnow = 0
    /\ cache_writes = 0

\* The background loops start_proactive_management schedules.
LifecycleLoops == 5

BgTasks == 1..(LifecycleLoops * MaxStarts)

\* KnowledgeLifecycleManager.__init__: no background task yet.
InitLifecycle ==
    /\ lifecycle_tasks = <<>>
    /\ bg_tasks = [i \in BgTasks |-> "none"]
    /\ lifecycle_pc = "fresh"
    /\ starts = 0

\* permission_cache_ttl, in ticks of the clock.
PermissionCacheTtl == 2

\* PermissionManager.__init__ with the default configuration: no admin
\* user, an empty permission cache; nothing has been asked yet.
InitPermissions ==
    /\ admin_users = {}
    /\ permission_cache = [u \in {"alice", "bob"} |-> NoEntry]
    /\ reported = [u \in {"alice", "bob"} |-> [is_admin |-> "unknown", dropped |-> FALSE]]

InitCore == InitCache /\ InitLifecycle /\ InitPermissions

TypeOK ==
    /\ config \in [Clients -> {"complete", "incomplete"}]
    /\ enabled \in [Clients -> BOOLEAN]
    /\ pc \in {"idle", "gather", "llm", "done"}
    /\ search_calls \in [Clients -> 0..2]
    /\ \A c \in Clients :
          \/ search_results[c] \in {NotInvoked, Pending, Raised}
          \/ /\ search_results[c].kind = "list"
             /\ search_results[c].items \in ResultLists(c)
    /\ finished \in Seq(Clients)
    /\ llm_calls \in 0..2
    /\ response.status \in {"none", "returned", "raised"}
    /\ now \in 0..MaxTime
    /\ sp_token.access_token \in 0..MaxTokens
    /\ sp_token.granted \in 0..MaxTokens
    /\ sp_token.rejected \subseteq 1..MaxTokens
    /\ last_search.outcome.kind \in {"none", "list", "exception"}
    /\ \A i \in 1..Len(last_search.outcome.items) :
          last_search.outcome.items[i].content \in ContentKinds(last_search.client)
    /\ call.fn \in {"none", "confidence", "_prepare_context", "_build_context",
                     "create_response_card"}
    /\ api_key \in BOOLEAN
    /\ query_processor \in {"unset", "none", "ready"}
    /\ bot_pc \in {"new", "idle", "processing", "saving"}
    /\ message \in {"none", "empty", "mention_only", "query", "mention_query",
                     "malformed"}
    /\ Len(replies) <= 1
    /\ escaped \in BOOLEAN
    /\ turns \in 0..MaxTurns
    /\ answers \in 0..turns

InitQP ==
    /\ config \in [Clients -> {"complete", "incomplete"}]
    /\ enabled = [c \in Clients |-> ClientEnabled(config[c])]
    /\ pc = "idle"
    /\ search_calls = [c \in Clients |-> 0]
    /\ search_results = [c \in Clients |-> NotInvoked]
    /\ finished = <<>>
    /\ all_results = <<>>
    /\ llm_calls = 0
    /\ ai_response = NoAiResponse
    /\ response = NoResponse

InitCL ==
    /\ sp_token = [access_token |-> 0, token_expires_at |-> 0, granted |-> 0,
                   rejected |-> {}]
    /\ now = 0
    /\ last_search = NoSearch

\* No function call is under way.
NoCall == [fn |-> "none"]

InitFN == call = NoCall

\* The bot has not been constructed.
InitBot ==
    /\ api_key \in BOOLEAN
    /\ query_processor = "unset"
    /\ bot_pc = "new"
    /\ message = "none"
    /\ replies = <<>>
    /\ escaped = FALSE
    /\ turns = 0
    /\ answers = 0

Init == InitQP /\ InitCL /\ InitFN /\ InitBot /\ api_key /\ InitCore

\* process_query from its call to the await of the gather, or to the early
\* return when no source is enabled.
Start ==
    /\ pc = "idle"
    /\ LET tasks == SearchTasks(enabled)
       IN  /\ search_calls' = [c \in Clients |->
                                  IF c \in Range(tasks) THEN 1 ELSE 0]
           /\ IF NoTasks(tasks)
              THEN /\ pc' = "done"
                   /\ response' = [status |-> "returned",
                                   value |-> NoSourcesAnswer(0)]
                   /\ UNCHANGED search_results
              ELSE /\ pc' = "gather"
                   /\ search_results' =
                          [c \in Clients |->
                              IF c \in Range(tasks) THEN Pending ELSE NotInvoked]
                   /\ UNCHANGED response
    /\ UNCHANGED <<enabled, finished, all_results, llm_calls, ai_response>>
    /\ UNCHANGED <<config, clVars, fnVars, botVars, coreVars>>

\* The search task of client c finishes with a list.
SearchReturns(c) ==
    /\ pc = "gather"
    /\ search_results[c] = Pending
    /\ \E items \in ResultLists(c) :
          search_results' = [search_results EXCEPT ![c] = Returned(items)]
    /\ finished' = Append(finished, c)
    /\ UNCHANGED <<enabled, pc, search_calls, all_results, llm_calls,
                   ai_response, response>>
    /\ UNCHANGED <<config, clVars, fnVars, botVars, coreVars>>

\* The search task of client c finishes with an exception.
SearchRaises(c) ==
    /\ pc = "gather"
    /\ search_results[c] = Pending
    /\ search_results' = [search_results EXCEPT ![c] = Raised]
    /\ finished' = Append(finished, c)
    /\ UNCHANGED <<enabled, pc, search_calls, all_results, llm_calls,
                   ai_response, response>>
    /\ UNCHANGED <<config, clVars, fnVars, botVars, coreVars>>

\* Every task has finished: process_query resumes after the gather, merges,
\* and runs up to its return or to the await of the chat-completion call.
GatherDone ==
    /\ pc = "gather"
    /\ GatherComplete(search_results)
    /\ LET tasks == SearchTasks(enabled)
           gathered == Gather(tasks, search_results)
           merged == Combine(gathered.results)
       IN  IF gathered.raises
           THEN /\ pc' = "done"
                /\ response' = ExceptHandler(1)
                /\ UNCHANGED <<all_results, llm_calls, ai_response>>
           ELSE
           /\ all_results' = merged
           /\ IF NoResults(merged)
              THEN /\ pc' = "done"
                   /\ response' = [status |-> "returned",
                                   value |-> NotFoundAnswer(1)]
                   /\ UNCHANGED <<llm_calls, ai_response>>
              ELSE IF PrepareContextRaises(merged)
              THEN /\ pc' = "done"
                   /\ ai_response' = DegradedResponse
                   /\ response' = FinalReturn(DegradedResponse, merged, 1)
                   /\ UNCHANGED llm_calls
              ELSE /\ pc' = "llm"
                   /\ llm_calls' = llm_calls + 1
                   /\ UNCHANGED <<ai_response, response>>
    /\ UNCHANGED <<enabled, search_calls, search_results, finished>>
    /\ UNCHANGED <<config, clVars, fnVars, botVars, coreVars>>

\* The chat-completion call returns a reply whose choices[0].message.content
\* is a string: the answer and its confidence are computed and returned.
LLMReturns ==
    /\ pc = "llm"
    /\ LET ai == [answer |-> "ai_answer",
                  confidence |-> Confidence(Len(all_results),
                                            ContextLen(all_results))]
       IN  /\ ai_response' = ai
           /\ response' = FinalReturn(ai, all_results, 2)
    /\ pc' = "done"
    /\ UNCHANGED <<enabled, search_calls, search_results, finished, all_results,
                   llm_calls>>
    /\ UNCHANGED <<config, clVars, fnVars, botVars, coreVars>>

\* The chat-completion call raises (a timeout, an API error), or its reply has
\* no usable choices[0].message.content: the except branch answers.
LLMFails ==
    /\ pc = "llm"
    /\ llm_calls' = LLMCallsAfterFailure(llm_calls)
    /\ ai_response' = DegradedResponse
    /\ response' = FinalReturn(DegradedResponse, all_results, 2)
    /\ pc' = "done"
    /\ UNCHANGED <<enabled, search_calls, search_results, finished, all_results>>
    /\ UNCHANGED <<config, clVars, fnVars, botVars, coreVars>>

\* The caller has its Answer; the processor is ready for the next query.
NextQuery ==
    /\ pc = "done"
    /\ pc' = "idle"
    /\ search_calls' = [c \in Clients |-> 0]
    /\ search_results' = [c \in Clients |-> NotInvoked]
    /\ finished' = <<>>
    /\ all_results' = <<>>
    /\ llm_calls' = 0
    /\ ai_response' = NoAiResponse
    /\ response' = NoResponse
    /\ UNCHANGED enabled
    /\ UNCHANGED <<config, clVars, fnVars, botVars, coreVars>>

Next ==
    \/ Start
    \/ \E c \in Clients : SearchReturns(c)
    \/ \E c \in Clients : SearchRaises(c)
    \/ GatherDone
    \/ LLMReturns
    \/ LLMFails
    \/ NextQuery

Spec == Init /\ [][Next]_vars

\* One call of ConfluenceClient.search.
ConfluenceSearch ==
    /\ last_search = NoSearch
    /\ \E env \in HttpEnvs("Confluence") :
          last_search' =
              [client |-> "Confluence",
               reached |-> IF enabled["Confluence"] THEN "http" ELSE "disabled",
               env |-> IF enabled["Confluence"] THEN env ELSE NoEnv,
               outcome |-> ConfluenceSearchOutcome(enabled["Confluence"], env)]
    /\ UNCHANGED <<sp_token, now>>
    /\ enabled' = [enabled EXCEPT
                      !["Confluence"] = EnabledAfterSearch(enabled["Confluence"], last_search')]
    /\ UNCHANGED <<config, runVars, fnVars, botVars, coreVars>>

\* One call of SharePointClient.search. The token endpoint is asked only
\* when _get_access_token finds no cached token that is still valid, and the
\* search call is made only with a token. The search records the token it
\* was sent with, and a token answered with 401 is noted as rejected.
SharePointSearch ==
    /\ last_search = NoSearch
    /\ IF ~enabled["SharePoint"]
       THEN /\ last_search' = [client |-> "SharePoint", reached |-> "disabled",
                               env |-> NoEnv, outcome |-> Returned(<<>>)]
            /\ UNCHANGED sp_token
       ELSE \E tokenEnv \in {e \in TokenEnvs :
                                 e.kind = "granted" => sp_token.granted < MaxTokens} :
               LET got == GetAccessToken(sp_token, now, tokenEnv)
               IN  IF got.token = 0
                   THEN /\ last_search' =
                               [client |-> "SharePoint", reached |-> "no_token",
                                env |-> NoEnv, outcome |-> Returned(<<>>)]
                        /\ sp_token' = got.state
                   ELSE \E env \in HttpEnvs("SharePoint") :
                           /\ last_search' =
                                  [client |-> "SharePoint", reached |-> "http",
                                   env |-> env,
                                   outcome |-> SharePointSearchOutcome(env),
                                   token |-> [id |-> got.token,
                                              requested |-> got.state.granted # sp_token.granted,
                                              sent_at |-> now,
                                              expires_at |-> got.state.token_expires_at,
                                              rejected_before |-> got.token \in sp_token.rejected]]
                           /\ sp_token' =
                                  [SharePointTokenAfter(got.state, env) EXCEPT
                                     !.rejected = IF env.net = "response" /\ env.status = 401
                                                  THEN @ \cup {got.token} ELSE @]
    /\ UNCHANGED now
    /\ enabled' = [enabled EXCEPT
                      !["SharePoint"] = EnabledAfterSearch(enabled["SharePoint"], last_search')]
    /\ UNCHANGED <<config, runVars, fnVars, botVars, coreVars>>

\* One call of LocalDocsClient.search.
LocalDocsSearch ==
    /\ last_search = NoSearch
    /\ \E env \in FsEnvs :
          last_search' =
              [client |-> "LocalDocs",
               reached |-> IF enabled["LocalDocs"] THEN "walk" ELSE "disabled",
               env |-> IF enabled["LocalDocs"] THEN env ELSE NoEnv,
               outcome |-> LocalDocsSearchOutcome(enabled["LocalDocs"], env)]
    /\ UNCHANGED <<sp_token, now>>
    /\ enabled' = [enabled EXCEPT
                      !["LocalDocs"] = EnabledAfterSearch(enabled["LocalDocs"], last_search')]
    /\ UNCHANGED <<config, runVars, fnVars, botVars, coreVars>>

\* The caller has taken the list the search returned.
SearchHandled ==
    /\ last_search # NoSearch
    /\ last_search' = NoSearch
    /\ UNCHANGED <<sp_token, now>>
    /\ UNCHANGED <<config, enabled, runVars, fnVars, botVars, coreVars>>

\* 300 seconds pass.
Tick ==
    /\ now < MaxTime
    /\ now' = now + 1
    /\ UNCHANGED <<sp_token, last_search>>
    /\ UNCHANGED <<config, enabled, runVars, fnVars, botVars, coreVars>>

NextClients ==
    \/ ConfluenceSearch
    \/ SharePointSearch
    \/ LocalDocsSearch
    \/ SearchHandled
    \/ Tick

SpecClients == Init /\ [][NextClients]_vars

----------------------------------------------------------------------------
\* The functions of the answer path, each applied to bounded arguments.

\* The processor and the clients at rest, every client configured.
InitProcessor ==
    /\ InitQP /\ InitCL
    /\ \A c \in Clients : config[c] = "complete"

\* The processor, its clients and the bot's environment, without src/navo/core.

InitRest == InitProcessor /\ InitBot /\ api_key /\ InitCore

\* len(context) of a context of at least one document.
ContextLens == {40 + 20 * k : k \in 0..MaxContextSteps}

\* The merged lists handed to _prepare_context: SharePoint results (whose
\* summary can be of any length) with string contents.
ContextInputs ==
    UNION {
        {[i \in 1..n |-> [source |-> "SharePoint", title |-> i,
                          content |-> f[i], hit |-> FALSE]] :
            f \in [1..n -> {"text", "edge", "long"}]} :
        n \in 1..MaxMerged}

\* ResponseGenerator._build_context. A document is given by the length of
\* its content; its title has TitleLen characters, its source is a name of
\* ten characters and it has no URL.
DocContents == {0} \cup (17..MaxContentChars) \cup {1000, 1001}

DocLists == UNION {[1..n -> DocContents] : n \in 0..MaxDocs}

\* self.max_context_length as configured: a small budget and the default.
Budgets == {150, 8000}

\* len(doc_info): "Document i:\n", "Title: ...\n", "Source: ...\n", then
\* "Content: ...\n" when the content is not empty, cut to 1000 characters and
\* "..." when longer, then "\n".
DocInfoLen(content) ==
    12 + (8 + TitleLen) + (9 + SourceLen("SharePoint"))
       + (IF content = 0 THEN 0
          ELSE 10 + (IF content > 1000 THEN 1003 ELSE content))
       + 1

\* The loop of _build_context from document i on, total_length being total:
\* the number of documents in context_parts and their summed length when the
\* loop ends, which it does at the first document that would exceed budget.
RECURSIVE BuildLoop(_, _, _, _)
BuildLoop(docs, i, total, budget) ==
    IF i > Len(docs) \/ total + DocInfoLen(docs[i]) > budget
    THEN [kept |-> i - 1, total_length |-> total]
    ELSE BuildLoop(docs, i + 1, total + DocInfoLen(docs[i]), budget)

\* len("\n".join(context_parts)) for kept parts of summed length total.
JoinedLen(kept, total) == IF kept = 0 THEN 0 ELSE total + (kept - 1)

\* len of the sentence returned for an empty document list.
NoDocumentsLen == 87

BuildContext(docs, budget) ==
    IF docs = <<>>
    THEN [kept |-> 0, context_len |-> NoDocumentsLen]
    ELSE LET loop == BuildLoop(docs, 1, 0, budget)
         IN  [kept |-> loop.kept,
              context_len |-> JoinedLen(loop.kept, loop.total_length)]

PrepareContextCalls ==
    {[fn |-> "_prepare_context", search_results |-> rs, done |-> FALSE,
      context |-> <<>>] : rs \in ContextInputs}

BuildContextCalls ==
    {[fn |-> "_build_context", relevant_docs |-> docs,
      max_context_length |-> budget, done |-> FALSE, kept |-> 0,
      context_len |-> 0] : docs \in DocLists, budget \in Budgets}

InitContext == InitRest /\ call \in PrepareContextCalls \cup BuildContextCalls

\* QueryProcessor._prepare_context runs on the merged list and returns.
PrepareContextReturns ==
    /\ call.fn = "_prepare_context"
    /\ ~call.done
    /\ ~PrepareContextRaises(call.search_results)
    /\ call' = [call EXCEPT !.done = TRUE,
                            !.context = PrepareContext(call.search_results)]
    /\ UNCHANGED <<qpVars, clVars, botVars, coreVars>>

\* ResponseGenerator._build_context runs on the documents and returns.
BuildContextReturns ==
    /\ call.fn = "_build_context"
    /\ ~call.done
    /\ LET built == BuildContext(call.relevant_docs, call.max_context_length)
       IN  call' = [call EXCEPT !.done = TRUE, !.kept = built.kept,
                               !.context_len = built.context_len]
    /\ UNCHANGED <<qpVars, clVars, botVars, coreVars>>

NextContext == PrepareContextReturns \/ BuildContextReturns

SpecContext == InitContext /\ [][NextContext]_vars

----------------------------------------------------------------------------
\* bot.NAVOBot.

\* A QueryProcessor.__init__ that does not look at the API key.
QueryProcessorInitUnchecked(key) == "constructed"

\* QueryProcessor.__init__: raises ValueError when OPENAI_API_KEY is not set.
QueryProcessorInit(key) == IF key THEN "constructed" ELSE "ValueError"

\* NAVOBot.__init__: the try around QueryProcessor() turns any exception into
\* query_processor = None.
NAVOBotInit(key) ==
    IF QueryProcessorInit(key) = "constructed" THEN "ready" ELSE "none"

\* The chat messages: no text, a mention of the bot and nothing else, a
\* query, a query after a mention, an activity without a sender (reading
\* from_property.name raises).
Messages == {"empty", "mention_only", "query", "mention_query", "malformed"}

\* The bot is constructed at startup.
BotConstructed ==
    /\ bot_pc = "new"
    /\ query_processor' = NAVOBotInit(api_key)
    /\ bot_pc' = "idle"
    /\ UNCHANGED <<api_key, message, replies, escaped, turns, answers>>
    /\ UNCHANGED <<qpVars, clVars, fnVars, coreVars>>

\* What the sends of one pass through on_message_activity come to when the
\* try means to send `activity` ("none": it raises before it sends
\* anything). send_activity delivers the activity, or raises; when it raises
\* inside the try, the outer except sends the generic error card with a
\* send_activity of its own, which delivers the card, or raises, and then
\* the exception leaves on_message_activity.
SendOutcomes(activity) ==
    {[replies |-> <<"error_card">>, escaped |-> FALSE],
     [replies |-> <<>>, escaped |-> TRUE]}
    \cup (IF activity = "none" THEN {}
          ELSE {[replies |-> <<activity>>, escaped |-> FALSE]})

\* on_message_activity up to its return or to the await of process_query:
\* the generic error card from the outer except, the help message for a
\* message without a query, the configuration error card when there is no
\* query processor.
MessageArrives(m) ==
    /\ bot_pc = "idle"
    /\ turns < MaxTurns
    /\ turns' = turns + 1
    /\ message' = m
    /\ IF m \in {"query", "mention_query"} /\ query_processor = "ready"
       THEN replies' = <<>> /\ escaped' = FALSE /\ bot_pc' = "processing"
       ELSE /\ \E out \in SendOutcomes(CASE m = "malformed" -> "none"
                                          [] m \in {"empty", "mention_only"} -> "help"
                                          [] OTHER -> "config_error") :
                  replies' = out.replies /\ escaped' = out.escaped
            /\ bot_pc' = "idle"
    /\ UNCHANGED <<api_key, query_processor, answers>>
    /\ UNCHANGED <<qpVars, clVars, fnVars, coreVars>>

\* process_query has returned its Answer (it never raises): the bot sends
\* the response card when the Answer has sources, its text otherwise, and
\* goes on to save the conversation state; when the send raises, the outer
\* except takes over and the state is not saved.
QueryProcessed ==
    /\ bot_pc = "processing"
    /\ \E has_sources \in BOOLEAN :
          LET answer == IF has_sources THEN "answer_card" ELSE "answer_text"
          IN  \E out \in SendOutcomes(answer) :
                  /\ replies' = out.replies
                  /\ escaped' = out.escaped
                  /\ IF out.replies = <<answer>>
                     THEN answers' = answers + 1 /\ bot_pc' = "saving"
                     ELSE answers' = answers /\ bot_pc' = "idle"
    /\ UNCHANGED <<api_key, query_processor, message, turns>>
    /\ UNCHANGED <<qpVars, clVars, fnVars, coreVars>>

\* _save_state has run; its own except keeps a failure from the handler.
StateSaved ==
    /\ bot_pc = "saving"
    /\ bot_pc' = "idle"
    /\ UNCHANGED <<api_key, query_processor, message, replies, escaped, turns,
                   answers>>
    /\ UNCHANGED <<qpVars, clVars, fnVars, coreVars>>

NextBot ==
    \/ BotConstructed
    \/ \E m \in Messages : MessageArrives(m)
    \/ QueryProcessed
    \/ StateSaved

\* Startup: the environment has the API key or has not, the bot is yet to
\* be constructed.
InitNAVOBot == InitProcessor /\ InitFN /\ InitBot /\ InitCore

SpecBot == InitNAVOBot /\ [][NextBot]_vars

----------------------------------------------------------------------------
\* CacheManager.get_cached_response and cache_response, one step per await
\* segment, run by coroutines that share the cache.

\* The variables outside src/navo/core.
restOfCore == <<qpVars, clVars, fnVars, botVars>>

\* get_cached_response(query) from its call to the await of the Redis GET:
\* a valid entry of the memory cache is counted and returned, an expired one
\* is deleted.
GetStart(t, query) ==
    /\ cache_tasks[t].pc \in {"idle", "done"}
    /\ LET key == GenerateQueryCacheKey(query)
           entry == memory_cache[key]
           called == [cache_tasks EXCEPT ![t] = [IdleTask EXCEPT !.op = "get",
                                                                !.query = query]]
       IN  IF entry.present /\ IsCacheEntryValid(entry, utcnow)
           THEN /\ entry.hit_count < MaxHits
                /\ memory_cache' = [memory_cache EXCEPT ![key] = TouchEntry(entry, utcnow)]
                /\ cache_tasks' =
                       [called EXCEPT ![t].pc = "done",
                                      ![t].result =
                                          [found |-> TRUE, value |-> entry.value,
                                           tier |-> "memory",
                                           age |-> utcnow - entry.timestamp,
                                           saw_expired |-> FALSE]]
           ELSE /\ memory_cache' = [memory_cache EXCEPT ![key] = NoEntry]
                /\ cache_tasks' =
                       [called EXCEPT ![t].pc = "redis_get",
                                      ![t].result = [NoResult EXCEPT
                                                        !.saw_expired = entry.present]]
    /\ UNCHANGED <<redis, redis_hits, utcnow, cache_writes>>
    /\ UNCHANGED <<restOfCore, lifeVars, permVars>>

\* The Redis GET is answered: a live value sends the coroutine on to the
\* INCR of the hit counter, no value (Redis drops an expired key when it is
\* read) or a failed call ends the lookup with None.
GetRedis(t) ==
    /\ cache_tasks[t].pc = "redis_get"
    /\ LET key == GenerateQueryCacheKey(cache_tasks[t].query)
           entry == redis[key]
       IN  \/ /\ RedisLive(entry, utcnow)
              /\ cache_tasks' =
                     [cache_tasks EXCEPT
                        ![t].pc = "incr",
                        ![t].result = [found |-> TRUE, value |-> entry.value,
                                       tier |-> "redis",
                                       age |-> utcnow - entry.stored_at,
                                       saw_expired |-> cache_tasks[t].result.saw_expired]]
              /\ UNCHANGED <<redis, redis_hits>>
           \/ /\ ~RedisLive(entry, utcnow)
              /\ redis' = [redis EXCEPT ![key] = NoEntry]
              /\ redis_hits' = [redis_hits EXCEPT ![key] = -1]
              /\ cache_tasks' =
                     [cache_tasks EXCEPT
                        ![t].pc = "done",
                        ![t].result.saw_expired = @ \/ entry.present]
           \/ /\ cache_tasks' = [cache_tasks EXCEPT ![t].pc = "done"]
              /\ UNCHANGED <<redis, redis_hits>>
    /\ UNCHANGED <<memory_cache, utcnow, cache_writes>>
    /\ UNCHANGED <<restOfCore, lifeVars, permVars>>

\* _increment_cache_hit_count has run (INCR makes a missing counter 1; its
\* failure is logged and swallowed): the value read from Redis is returned.
GetIncr(t) ==
    /\ cache_tasks[t].pc = "incr"
    /\ LET key == GenerateQueryCacheKey(cache_tasks[t].query)
       IN  \/ /\ redis_hits[key] < MaxHits
              /\ redis_hits' = [redis_hits EXCEPT
                                   ![key] = IF @ < 0 THEN 1 ELSE @ + 1]
           \/ UNCHANGED redis_hits
    /\ cache_tasks' = [cache_tasks EXCEPT ![t].pc = "done"]
    /\ UNCHANGED <<memory_cache, redis, utcnow, cache_writes>>
    /\ UNCHANGED <<restOfCore, lifeVars, permVars>>

\* cache_response(query, response) from its call to the await of the SETEX.
SetStart(t, query, confidence) ==
    /\ cache_tasks[t].pc \in {"idle", "done"}
    /\ cache_writes < MaxWrites
    /\ cache_writes' = cache_writes + 1
    /\ cache_tasks' =
           [cache_tasks EXCEPT
              ![t] = [IdleTask EXCEPT
                        !.op = "set", !.pc = "setex", !.query = query,
                        !.response = [query |-> query, confidence |-> confidence,
                                      id |-> cache_writes + 1]]]
    /\ UNCHANGED <<memory_cache, redis, redis_hits, utcnow>>
    /\ UNCHANGED <<restOfCore, lifeVars, permVars>>

\* The SETEX is answered: Redis holds the response for query_cache_ttl; a
\* response of confidence above 0.8 is put in the memory cache too, unless
\* that is full. A failed SETEX ends the call with False.
SetRedis(t) ==
    /\ cache_tasks[t].pc = "setex"
    /\ LET key == GenerateQueryCacheKey(cache_tasks[t].query)
           value == cache_tasks[t].response
           held == {k \in CacheKeys : memory_cache[k].present}
       IN  \/ /\ redis' = [redis EXCEPT
                              ![key] = [present |-> TRUE, value |-> value,
                                        stored_at |-> utcnow,
                                        expires_at |-> utcnow + QueryCacheTtl]]
              /\ memory_cache' =
                     IF value.confidence = "high"
                        /\ Cardinality(held) < MemoryCacheMaxSize
                     THEN [memory_cache EXCEPT
                             ![key] = [present |-> TRUE, value |-> value,
                                       timestamp |-> utcnow, hit_count |-> 0,
                                       last_accessed |-> utcnow]]
                     ELSE memory_cache
              /\ cache_tasks' = [cache_tasks EXCEPT ![t].pc = "hits"]
           \/ /\ cache_tasks' = [cache_tasks EXCEPT ![t].pc = "done"]
              /\ UNCHANGED <<memory_cache, redis>>
    /\ UNCHANGED <<redis_hits, utcnow, cache_writes>>
    /\ UNCHANGED <<restOfCore, lifeVars, permVars>>

\* The SETEX of the hit counter is answered (or fails): cache_response
\* returns.
SetHits(t) ==
    /\ cache_tasks[t].pc = "hits"
    /\ LET key == GenerateQueryCacheKey(cache_tasks[t].query)
       IN  \/ redis_hits' = [redis_hits EXCEPT ![key] = 0]
           \/ UNCHANGED redis_hits
    /\ cache_tasks' = [cache_tasks EXCEPT ![t].pc = "done"]
    /\ UNCHANGED <<memory_cache, redis, utcnow, cache_writes>>
    /\ UNCHANGED <<restOfCore, lifeVars, permVars>>

\* Time passes.
CacheTick ==
    /\ utcnow < MaxClock
    /\ utcnow' = utcnow + 1
    /\ UNCHANGED <<memory_cache, redis, redis_hits, cache_tasks, cache_writes>>
    /\ UNCHANGED <<restOfCore, lifeVars, permVars>>

\* Redis removes a key whose time to live is over.
RedisSweep ==
    /\ \E k \in CacheKeys :
          /\ redis[k].present /\ ~RedisLive(redis[k], utcnow)
          /\ redis' = [redis EXCEPT ![k] = NoEntry]
          /\ redis_hits' = [redis_hits EXCEPT ![k] = -1]
    /\ UNCHANGED <<memory_cache, cache_tasks, utcnow, cache_writes>>
    /\ UNCHANGED <<restOfCore, lifeVars, permVars>>

NextCache ==
    \/ \E t \in Tasks, q \in SharedQueries : GetStart(t, q)
    \/ \E t \in Tasks : GetRedis(t)
    \/ \E t \in Tasks : GetIncr(t)
    \/ \E t \in Tasks, q \in SharedQueries, c \in {"high", "low"} : SetStart(t, q, c)
    \/ \E t \in Tasks : SetRedis(t)
    \/ \E t \in Tasks : SetHits(t)
    \/ CacheTick
    \/ RedisSweep

\* The components as the application's lifespan constructs them.
InitPlatform == InitProcessor /\ InitBot /\ api_key /\ InitFN /\ InitCore

SpecCache == InitPlatform /\ [][NextCache]_vars

----------------------------------------------------------------------------
\* src/navo/core/query_processor.py: _normalize_text.

\* The pieces a text is made of: words in capitals and in lower case,
\* blank and tab, characters the last substitution replaces and one it
\* keeps.
TextChars == {"DROP", "TABLE", "script", " ", "tab", "<", ">", ";", "-"}

\* _normalize_text: text.lower().strip(), then every run of whitespace
\* becomes one blank, then every character that is not a word character,
\* whitespace or one of ? ! . - becomes a blank.
NormalizeText(text) ==
    LET IsSpace(c) == c \in {" ", "tab"}
        Lower(c) == CASE c = "DROP" -> "drop" [] c = "TABLE" -> "table" [] OTHER -> c
        lowered == [i \in 1..Len(text) |-> Lower(text[i])]
        inner == {i \in 1..Len(lowered) : ~IsSpace(lowered[i])}
        stripped ==
            IF inner = {} THEN <<>>
            ELSE SubSeq(lowered, CHOOSE i \in inner : \A j \in inner : i <= j,
                                 CHOOSE i \in inner : \A j \in inner : i >= j)
        StartsRun(i) == ~(i > 1 /\ IsSpace(stripped[i - 1]))
        kept == {i \in 1..Len(stripped) : ~IsSpace(stripped[i]) \/ StartsRun(i)}
        Nth(n) == CHOOSE i \in kept : Cardinality({j \in kept : j <= i}) = n
        collapsed ==
            [n \in 1..Cardinality(kept) |->
                IF IsSpace(stripped[Nth(n)]) THEN " " ELSE stripped[Nth(n)]]
    IN  [n \in 1..Len(collapsed) |->
            IF collapsed[n] \in {"<", ">", ";"} THEN " " ELSE collapsed[n]]

NormalizeCalls ==
    {[fn |-> "_normalize_text", text |-> t, done |-> FALSE, normalized |-> <<>>] :
        t \in UNION {[1..n -> TextChars] : n \in 0..MaxTextChars}}

InitNormalize == InitRest /\ call \in NormalizeCalls

NormalizeTextReturns ==
    /\ call.fn = "_normalize_text"
    /\ ~call.done
    /\ call' = [call EXCEPT !.done = TRUE, !.normalized = NormalizeText(call.text)]
    /\ UNCHANGED <<qpVars, clVars, botVars, coreVars>>

SpecNormalize == InitNormalize /\ [][NormalizeTextReturns]_vars

----------------------------------------------------------------------------
\* src/navo/core/source_coordinator.py: _search_source and
\* _filter_by_permissions.

\* _filter_by_permissions: the results whose check_content_access is true,
\* in order; the whole loop is inside one try, and when a check raises the
\* handler logs and returns results, the list it was given. (The
\* PermissionManager of permission_manager.py defines no
\* check_content_access, so with it the first check raises.)
FilterByPermissions(results) ==
    IF \E i \in 1..Len(results) : results[i].check = "raise"
    THEN results
    ELSE SelectSeq(results, LAMBDA r : r.check = "allow")

\* A search of one source: the results its client returns, each with what
\* the permission check does for it.
SearchSourceCalls ==
    {[fn |-> "_search_source",
      raw_results |-> [i \in 1..Len(c) |-> [id |-> i, check |-> c[i]]],
      done |-> FALSE, returned |-> <<>>] :
        c \in UNION {[1..n -> {"allow", "deny", "raise"}] : n \in 0..MaxSourceResults}}

InitSearchSource == InitRest /\ call \in SearchSourceCalls

\* _search_source returns filtered_results.
SearchSourceReturns ==
    /\ call.fn = "_search_source"
    /\ ~call.done
    /\ call' = [call EXCEPT !.done = TRUE,
                            !.returned = FilterByPermissions(call.raw_results)]
    /\ UNCHANGED <<qpVars, clVars, botVars, coreVars>>

SpecSearchSource == InitSearchSource /\ [][SearchSourceReturns]_vars

----------------------------------------------------------------------------
\* src/navo/core/permission_manager.py: the permission cache and the admin
\* list. None of the coroutines that get_user_permissions, add_admin_user
\* and remove_admin_user await (_get_confluence_permissions,
\* _get_sharepoint_permissions, invalidate_user_permissions) has an await
\* of its own, so each call runs from its first line to its return without
\* giving up the event loop: each is one step.

\* _is_cache_valid at time t: age < permission_cache_ttl.
IsCacheValid(cache_entry, t) == t - cache_entry.timestamp < PermissionCacheTtl

\* An invalidation that leaves the cache as it is.
InvalidateNothing(cache, user_id) == cache

\* invalidate_user_permissions: the user's entry is deleted.
InvalidateUserPermissions(cache, user_id) == [cache EXCEPT ![user_id] = NoEntry]

\* get_user_permissions(user_id): the cached permissions when there is a
\* valid entry, else permissions computed from user_id in admin_users,
\* which are cached with the time.
GetUserPermissions(user_id) ==
    /\ LET cached_entry == permission_cache[user_id]
           is_admin == user_id \in admin_users
       IN  IF cached_entry.present /\ IsCacheValid(cached_entry, utcnow)
           THEN /\ reported' = [reported EXCEPT ![user_id].is_admin =
                                                IF cached_entry.is_admin THEN "yes" ELSE "no"]
                /\ UNCHANGED permission_cache
           ELSE /\ reported' = [reported EXCEPT ![user_id].is_admin =
                                                IF is_admin THEN "yes" ELSE "no"]
                /\ permission_cache' =
                       [permission_cache EXCEPT
                          ![user_id] = [present |-> TRUE, is_admin |-> is_admin,
                                        timestamp |-> utcnow]]
    /\ UNCHANGED <<admin_users, utcnow>>
    /\ UNCHANGED <<restOfCore, lifeVars, memory_cache, redis, redis_hits,
                   cache_tasks, cache_writes>>

\* add_admin_user(user_id): the user joins the admin list, then the user's
\* cached permissions are invalidated. What an earlier call reported is
\* forgotten; whether an entry was dropped is kept.
AddAdminUser(user_id) ==
    /\ admin_users' = admin_users \cup {user_id}
    /\ permission_cache' = InvalidateUserPermissions(permission_cache, user_id)
    /\ reported' = [reported EXCEPT
                       ![user_id] = [is_admin |-> "unknown",
                                     dropped |-> permission_cache[user_id].present]]
    /\ UNCHANGED utcnow
    /\ UNCHANGED <<restOfCore, lifeVars, memory_cache, redis, redis_hits,
                   cache_tasks, cache_writes>>

\* remove_admin_user(user_id): the same with admin_users.discard.
RemoveAdminUser(user_id) ==
    /\ admin_users' = admin_users \ {user_id}
    /\ permission_cache' = InvalidateUserPermissions(permission_cache, user_id)
    /\ reported' = [reported EXCEPT
                       ![user_id] = [is_admin |-> "unknown",
                                     dropped |-> permission_cache[user_id].present]]
    /\ UNCHANGED utcnow
    /\ UNCHANGED <<restOfCore, lifeVars, memory_cache, redis, redis_hits,
                   cache_tasks, cache_writes>>

NextPermissions ==
    \/ \E u \in DOMAIN reported : GetUserPermissions(u)
    \/ \E u \in DOMAIN reported : AddAdminUser(u)
    \/ \E u \in DOMAIN reported : RemoveAdminUser(u)
    \/ CacheTick

SpecPermissions == InitPlatform /\ [][NextPermissions]_vars

----------------------------------------------------------------------------
\* src/navo/core/knowledge_lifecycle_manager.py: start and stop of the
\* background loops.

\* A gather that does not wait for the tasks.
GatherNotAwaited(tasks, states) == TRUE

\* await asyncio.gather(*tasks, return_exceptions=True) returns: every task
\* handed to it is finished.
GatherReturned(tasks, states) ==
    \A i \in 1..Len(tasks) : states[tasks[i]] = "finished"

\* start_proactive_management: five tasks are created, one for each loop,
\* and lifecycle_tasks is assigned the list of them.
StartProactiveManagement ==
    /\ lifecycle_pc \in {"fresh", "started", "stopped"}
    /\ starts < MaxStarts
    /\ LET created == [i \in 1..LifecycleLoops |-> LifecycleLoops * starts + i]
       IN  /\ lifecycle_tasks' = created
           /\ bg_tasks' = [t \in BgTasks |->
                              IF \E i \in 1..LifecycleLoops : created[i] = t
                              THEN "running" ELSE bg_tasks[t]]
    /\ lifecycle_pc' = "started"
    /\ starts' = starts + 1
    /\ UNCHANGED <<restOfCore, cacheVars, permVars>>

\* stop_proactive_management up to its await: task.cancel() for every task
\* of lifecycle_tasks (a finished task is left as it is).
StopProactiveManagement ==
    /\ lifecycle_pc \in {"fresh", "started", "stopped"}
    /\ bg_tasks' = [t \in BgTasks |->
                       IF /\ \E i \in 1..Len(lifecycle_tasks) : lifecycle_tasks[i] = t
                          /\ bg_tasks[t] = "running"
                       THEN "cancelling" ELSE bg_tasks[t]]
    /\ lifecycle_pc' = "gathering"
    /\ UNCHANGED <<lifecycle_tasks, starts>>
    /\ UNCHANGED <<restOfCore, cacheVars, permVars>>

\* A cancelled loop is resumed with CancelledError at the await it is
\* suspended in: inside the try the handler breaks out of the while True,
\* in the sleep of the except Exception handler the error ends the
\* coroutine. The task is finished either way. A loop that is not cancelled
\* never ends.
LoopCancelled(t) ==
    /\ bg_tasks[t] = "cancelling"
    /\ bg_tasks' = [bg_tasks EXCEPT ![t] = "finished"]
    /\ UNCHANGED <<lifecycle_tasks, lifecycle_pc, starts>>
    /\ UNCHANGED <<restOfCore, cacheVars, permVars>>

\* The gather of stop_proactive_management returns, and so does the call.
StopReturns ==
    /\ lifecycle_pc = "gathering"
    /\ GatherReturned(lifecycle_tasks, bg_tasks)
    /\ lifecycle_pc' = "stopped"
    /\ UNCHANGED <<lifecycle_tasks, bg_tasks, starts>>
    /\ UNCHANGED <<restOfCore, cacheVars, permVars>>

NextLifecycle ==
    \/ StartProactiveManagement
    \/ StopProactiveManagement
    \/ \E t \in BgTasks : LoopCancelled(t)
    \/ StopReturns

SpecLifecycle == InitPlatform /\ [][NextLifecycle]_vars

----------------------------------------------------------------------------
\* adaptive_cards.create_response_card.

\* int(confidence * 100) for a confidence of c/2000: the product is a float
\* and int() cuts it towards zero, which is c / 20 rounded down except at
\* 0.29, 0.57 and 0.58, whose products fall just below the integer.
Percent(c) == IF c \in {580, 1140, 1160} THEN (c \div 20) - 1 ELSE c \div 20

\* confidence_pct.
ConfidencePct(c) == IF c > 0 THEN Percent(c) ELSE 89

\* The level named in the "Confidence:" fact.
ConfidenceLabel(pct) ==
    IF pct >= 80 THEN "High" ELSE IF pct >= 60 THEN "Medium" ELSE "Low"

\* A "Sources Found:" fact that counts the sources shown.
SourcesFoundShown(sources) == Min(3, Len(sources))

\* The value of the "Sources Found:" fact: str(len(sources)).
SourcesFound(sources) == Len(sources)

\* The source blocks of the card: one per source of sources[:3].
SourceBlocks(sources) == Take(sources, 3)

CreateResponseCard(sources, confidence) ==
    [source_blocks |-> SourceBlocks(sources),
     sources_found |-> SourcesFound(sources),
     confidence_pct |-> ConfidencePct(confidence),
     confidence_label |-> ConfidenceLabel(ConfidencePct(confidence))]

NoCard == [source_blocks |-> <<>>, sources_found |-> 0, confidence_pct |-> 0,
           confidence_label |-> "none"]

\* The calls of create_response_card: a list of sources, given by their
\* titles, and a confidence of 0/2000 .. 2000/2000.
CardCalls ==
    {[fn |-> "create_response_card", sources |-> [i \in 1..n |-> i],
      confidence |-> c, done |-> FALSE, card |-> NoCard] :
        n \in 0..MaxCardSources, c \in 0..2000}

InitCard == InitRest /\ call \in CardCalls

CreateResponseCardReturns ==
    /\ call.fn = "create_response_card"
    /\ ~call.done
    /\ call' = [call EXCEPT !.done = TRUE,
                            !.card = CreateResponseCard(call.sources,
                                                        call.confidence)]
    /\ UNCHANGED <<qpVars, clVars, botVars, coreVars>>

NextCard == CreateResponseCardReturns

SpecCard == InitCard /\ [][NextCard]_vars

----------------------------------------------------------------------------
\* The confidence lines of _generate_ai_response, for n merged results and a
\* context of len characters.
ComputeConfidence ==
    /\ \E n \in 1..MaxMerged, len \in ContextLens :
          call' = [fn |-> "confidence", n |-> n, context_len |-> len,
                   confidence |-> Confidence(n, len)]
    /\ UNCHANGED <<qpVars, clVars, botVars, coreVars>>

NextConfidence == ComputeConfidence

InitConfidence == InitRest /\ InitFN

SpecConfidence == InitConfidence /\ [][NextConfidence]_vars

----------------------------------------------------------------------------
\* Properties of process_query (specification Spec).

Done == pc = "done"

Invoked == {c \in Clients : search_calls[c] > 0}

Failed == {c \in Clients : search_results[c].kind = "exception"}

AnswerOf == response.value

\* A result among the first k of the list whose content is the given kind.
HasContent(results, k, kind) ==
    \E i \in 1..Min(k, Len(results)) : results[i].content = kind

\* The relevance score of the merged result a formatted source was made from.
ScoreOfSource(s) ==
    KeywordRelevance(
        CHOOSE r \in Range(all_results) :
            r.source = s.source_type /\ r.title = s.title)

\* The formatted source stands for the merged result r.
IsSourceOf(s, r) == s.source_type = r.source /\ s.title = r.title

\* C1: when every invoked source client returned an empty list, the Answer
\* has confidence 0.0 and no sources, and no chat-completion call was made.
C1_EmptyResultsShortCircuit ==
    (Done /\ \A c \in Invoked : search_results[c] = Returned(<<>>))
        => /\ response.status = "returned"
           /\ AnswerOf.confidence = 0
           /\ AnswerOf.sources = <<>>
           /\ llm_calls = 0

C1_Witness ==
    /\ Done
    /\ Cardinality(Invoked) >= 2
    /\ \A c \in Invoked : search_results[c] = Returned(<<>>)
    /\ AnswerOf.answer = "not_found"

\* C2: when a search raised during the fan-out, every other task still ran to
\* its own end, every result the other tasks returned is in the merged list,
\* and the raising client contributed nothing.
C2_FaultIsolation ==
    /\ (pc = "gather" /\ Failed # {})
          => \A c \in Clients :
                search_results[c] = Pending => ENABLED SearchReturns(c)
    /\ (pc \in {"llm", "done"} /\ Failed # {})
          => /\ response.status # "raised"
             /\ \A c \in Clients :
                   search_results[c].kind = "list"
                       => Range(search_results[c].items) \subseteq Range(all_results)
             /\ \A r \in Range(all_results) : r.source \notin Failed

C2_Witness ==
    /\ Done
    /\ search_results["Confluence"] = Raised
    /\ search_results["SharePoint"].kind = "list"
    /\ Len(search_results["SharePoint"].items) = MaxResults
    /\ search_results["LocalDocs"].kind = "list"
    /\ Len(all_results) > MaxResults

\* C3 as stated: with a non-empty merged result set the chat-completion
\* endpoint is called exactly once.
C3_ExactlyOneLLMCall ==
    (Done /\ all_results # <<>>) => llm_calls = 1

\* C3 as amended: with a non-empty merged result set the endpoint is called
\* at most once and never again after the call failed; it is called exactly
\* once unless context building raised on a content without a length among
\* the first five results, and then it is not called at all.
C3_OneLLMCallUnlessContextFails ==
    /\ llm_calls <= 1
    /\ (pc = "llm") => llm_calls = 1
    /\ (Done /\ all_results # <<>>)
          => llm_calls = (IF HasContent(all_results, 5, "num") THEN 0 ELSE 1)

C3_Witness ==
    /\ Done
    /\ all_results # <<>>
    /\ llm_calls = 1
    /\ ai_response.answer = "degraded"

\* C4: one invocation calls search exactly once on each enabled client and
\* never on a disabled one.
C4_SearchOncePerEnabledClient ==
    (pc # "idle")
        => \A c \in Clients :
              /\ search_calls[c] = (IF enabled[c] THEN 1 ELSE 0)
              /\ ~enabled[c] => search_results[c] = NotInvoked

C4_Witness ==
    /\ Done
    /\ enabled["Confluence"] /\ ~enabled["SharePoint"] /\ enabled["LocalDocs"]
    /\ search_calls["Confluence"] = 1 /\ search_calls["LocalDocs"] = 1
    /\ search_calls["SharePoint"] = 0

\* C5: with all three clients disabled no search task is spawned, no
\* chat-completion call is made, and the Answer is the canned "no knowledge
\* sources configured" message with no sources and confidence 0.0.
C5_AllDisabled ==
    (\A c \in Clients : ~enabled[c])
        => /\ pc \in {"idle", "done"}
           /\ \A c \in Clients :
                 search_calls[c] = 0 /\ search_results[c] = NotInvoked
           /\ llm_calls = 0
           /\ Done => /\ response.status = "returned"
                      /\ AnswerOf.answer = "no_sources_configured"
                      /\ AnswerOf.sources = <<>>
                      /\ AnswerOf.confidence = 0

C5_Witness ==
    /\ Done
    /\ \A c \in Clients : ~enabled[c]
    /\ AnswerOf.answer = "no_sources_configured"

\* C6: every Answer process_query returns carries at most 3 sources.
C6_AtMostThreeSources == Len(AnswerOf.sources) <= 3

C6_Witness ==
    /\ Done
    /\ Len(all_results) > 3
    /\ Len(AnswerOf.sources) = 3

C8_DegradedAnswerKeepsSources ==
    (Done /\ ai_response.answer = "degraded")
        => /\ response.status = "returned"
           /\ AnswerOf.answer = "degraded"
           /\ AnswerOf.confidence = DegradedConfidence
           /\ Len(AnswerOf.sources) = Min(3, Len(all_results))
           /\ \A i \in 1..Len(AnswerOf.sources) :
                 IsSourceOf(AnswerOf.sources[i], all_results[i])

\* C9: no invocation of process_query propagates an exception: it ends by
\* returning a record with answer, sources, confidence and processing_time.
C9_NeverPropagates ==
    /\ response.status # "raised"
    /\ Done => /\ response.status = "returned"
               /\ DOMAIN AnswerOf =
                     {"answer", "sources", "confidence", "processing_time"}
               /\ AnswerOf.answer \in {"no_sources_configured", "not_found",
                                       "ai_answer", "degraded", "error"}

C9_Witness ==
    /\ Done
    /\ response.status = "returned"
    /\ AnswerOf.answer = "error"
    /\ llm_calls = 1

\* The list a client's search task handed to the gather, the empty list when
\* the task raised or the client was not searched.
ListOf(c) ==
    IF search_results[c].kind = "list" THEN search_results[c].items ELSE <<>>

\* C11: once process_query has merged, the merged list is the concatenation
\* of the clients' lists in the declared order Confluence, SharePoint,
\* LocalDocs, whatever order the searches finished in; every list keeps its
\* own order and no result is dropped as a duplicate.
C11_MergedInDeclaredOrder ==
    pc \in {"llm", "done"} =>
        all_results = ListOf("Confluence") \o ListOf("SharePoint")
                                           \o ListOf("LocalDocs")

\* The searches finished in the reverse of the declared order, two clients
\* returned results, one of them two results.
C11_Witness ==
    /\ pc \in {"llm", "done"}
    /\ finished = <<"LocalDocs", "SharePoint", "Confluence">>
    /\ Len(ListOf("Confluence")) = 2
    /\ Len(ListOf("LocalDocs")) = 1
    /\ Len(all_results) = 3
    /\ all_results[1].source = "Confluence" /\ all_results[1].title = 1
    /\ all_results[3].source = "LocalDocs"

\* C12: process_query hands out an Answer only when every search it started
\* has returned or raised: while a search is still running there is no
\* Answer, however long it runs (no cancellation, no deadline of the query).
C12_AnswerAfterAllSearches ==
    response.status # "none" =>
        \A c \in Clients :
            search_calls[c] > 0 => search_results[c].kind \in {"list", "exception"}

\* An Answer after three searches, one of which raised.
C12_Witness ==
    /\ response.status = "returned"
    /\ Len(finished) = 3
    /\ Failed # {}
    /\ AnswerOf.answer = "ai_answer"

\* C13: the confidence of every Answer lies in [0.0, 0.95].
C13_ConfidenceInRange ==
    response.status = "returned" =>
        /\ AnswerOf.confidence >= 0
        /\ AnswerOf.confidence <= 1900

\* An Answer whose three terms add up to more than 0.95: the cap applies.
C13_Witness ==
    /\ response.status = "returned"
    /\ AnswerOf.answer = "ai_answer"
    /\ Len(all_results) >= 3
    /\ ConfidenceUncapped(Len(all_results), ContextLen(all_results)) > 1900
    /\ AnswerOf.confidence = 1900

----------------------------------------------------------------------------
\* Properties of the source clients (specification SpecClients).

Searched == last_search.client # "none"

SearchDisabled == last_search.reached = "disabled"

SearchAuthFailed == AuthFailed(last_search)

SearchNetworkFailed ==
    last_search.env.net \in {"ClientError", "TimeoutError", "walk_error"}

SearchStatusNot200 ==
    last_search.env.net = "response" /\ last_search.env.status # 200

\* The 200 response cannot be parsed as a whole.
SearchBodyUnparseable == last_search.env.body.kind \in {"not_json", "not_object"}

\* The 200 response is malformed: as a whole, in one of its items, or in a
\* container after its items.
SearchBodyMalformed ==
    \/ SearchBodyUnparseable
    \/ last_search.env.body.kind = "object_broken_tail"
    \/ \E i \in 1..Len(last_search.env.body.items) :
          last_search.env.body.items[i] = "malformed"

\* The positions of the items of the response that can be parsed (of the
\* files that can be read and contain the query).
KeptItems ==
    {i \in 1..Len(last_search.env.body.items) :
        last_search.env.body.items[i] \notin {"malformed", "nomatch", "unreadable"}}

C19_UnavailableIsDisabled ==
    \A c \in Clients :
        (config[c] = "incomplete" \/ (last_search.client = c /\ SearchAuthFailed))
            => ~enabled[c]

\* C19 as amended: over the life of the process a client's enabled flag is
\* what its __init__ made it: false when its settings were missing, true
\* otherwise, a failed authentication changing nothing.
C19_EnabledFixedByConfig ==
    \A c \in Clients : enabled[c] = ClientEnabled(config[c])

\* SharePoint has just been refused a token while Confluence, whose settings
\* are missing, is disabled.
C19_Witness ==
    /\ last_search.client = "SharePoint"
    /\ last_search.reached = "no_token"
    /\ enabled["SharePoint"]
    /\ config["Confluence"] = "incomplete"
    /\ ~enabled["Confluence"]

----------------------------------------------------------------------------
\* Properties of the confidence formula (specification SpecConfidence).

\* C14: with the context length held fixed, the confidence of a generated
\* answer never falls when the number of merged results grows.
C14_ConfidenceMonotone ==
    [][(/\ call.fn = "confidence" /\ call'.fn = "confidence"
        /\ call'.context_len = call.context_len
        /\ call'.n >= call.n)
          => call'.confidence >= call.confidence]_vars

\* Two results and a context of 100 characters: neither inner minimum nor
\* the cap is active, and a third result raises the confidence.
C14_Witness ==
    /\ call.fn = "confidence"
    /\ call.n = 2
    /\ call.context_len = 100
    /\ call.confidence = 1700
    /\ Confidence(call.n + 1, call.context_len) > call.confidence

----------------------------------------------------------------------------
\* Properties of the prompt context (specification SpecContext).

PreparedContext == call.fn = "_prepare_context" /\ call.done

BuiltContext == call.fn = "_build_context" /\ call.done

\* C15: the prompt context holds exactly the first min(5, n) of the n merged
\* results, in the order of the merged list, each with at most 800
\* characters of its content; no result after the fifth is in it.
C15_ContextFromFirstFive ==
    PreparedContext =>
        LET rs == call.search_results
            ctx == call.context
        IN  /\ Len(ctx) = Min(5, Len(rs))
            /\ \A i \in 1..Len(ctx) :
                  /\ ctx[i].document = i
                  /\ ctx[i].title = rs[i].title
                  /\ ctx[i].source = rs[i].source
                  /\ ctx[i].content_chars = Min(800, ContentLen(rs[i]))
                  /\ ctx[i].ellipsis = (ContentLen(rs[i]) > 800)
            /\ \A i \in 1..Len(ctx) : ctx[i].title <= 5

\* Seven results, the fifth with a content of more than 800 characters, the
\* fourth with exactly 800, the sixth long as well.
C15_Witness ==
    /\ PreparedContext
    /\ Len(call.search_results) = 7
    /\ call.search_results[4].content = "edge"
    /\ call.search_results[5].content = "long"
    /\ call.search_results[6].content = "long"
    /\ Len(call.context) = 5
    /\ call.context[5].ellipsis /\ call.context[5].content_chars = 800
    /\ ~call.context[4].ellipsis /\ call.context[4].content_chars = 800

\* C16: the context built from the documents never exceeds the configured
\* character budget, documents being dropped from the tail until it fits.
C16_ContextWithinBudget ==
    (BuiltContext /\ call.relevant_docs # <<>>) =>
        /\ call.kept <= Len(call.relevant_docs)
        /\ call.context_len <= call.max_context_length

----------------------------------------------------------------------------
\* Properties of the response card (specification SpecCard).

CardMade == call.fn = "create_response_card" /\ call.done

C18_LabelByThreshold ==
    CardMade =>
        /\ call.card.confidence_label = "High" <=> call.confidence >= 1600
        /\ call.card.confidence_label = "Medium"
              <=> (call.confidence >= 1200 /\ call.confidence < 1600)
        /\ call.card.confidence_label = "Low" <=> call.confidence < 1200

----------------------------------------------------------------------------
\* Properties of the bot (specification SpecBot).

NextCacheKeys ==
    \/ \E q \in CacheQueries : GetStart("t1", q)
    \/ GetRedis("t1")
    \/ GetIncr("t1")
    \/ \E q \in CacheQueries, c \in {"high", "low"} : SetStart("t1", q, c)
    \/ SetRedis("t1")
    \/ SetHits("t1")

SpecCacheKeys == InitPlatform /\ [][NextCacheKeys]_vars

\* A lookup that has found a value.
Served(t) ==
    /\ cache_tasks[t].op = "get"
    /\ cache_tasks[t].pc \in {"incr", "done"}
    /\ cache_tasks[t].result.found

\* "filters or {}".
FiltersOrEmpty(query) == IF query.filters = "None" THEN "{}" ELSE query.filters

\* C21: after any sequence of cache writes, cache reads and elapsed time, a
\* lookup never returns an entry whose TTL has elapsed: every value a
\* lookup found had been stored for less than the TTL when it was read,
\* whether it came from the memory cache or from Redis, and whether or not
\* the expired entry had been removed.
C21_NeverServesExpired ==
    \A t \in Tasks : Served(t) => cache_tasks[t].result.age < QueryCacheTtl

\* A lookup met an entry whose TTL had elapsed and that had not been removed,
\* and returned nothing.
C21_Witness ==
    \E t \in Tasks :
        /\ cache_tasks[t].op = "get"
        /\ cache_tasks[t].pc = "done"
        /\ cache_tasks[t].result.saw_expired
        /\ ~cache_tasks[t].result.found

\* C22: a cached response is returned only for a query that has the same
\* normalized text, the same user_id and the same filters as the query that
\* stored it; a response cached for one user is never served to another.
C22_ServedToSameQueryOnly ==
    \A t \in Tasks :
        Served(t) =>
            LET asked == cache_tasks[t].query
                stored == cache_tasks[t].result.value.query
            IN  /\ NormalizeQueryText(stored.text) = NormalizeQueryText(asked.text)
                /\ stored.user_id = asked.user_id
                /\ FiltersOrEmpty(stored) = FiltersOrEmpty(asked)

\* A lookup of one user found nothing while the response to the same text
\* asked by another user was cached and live.
C22_Witness ==
    \E t \in Tasks, k \in CacheKeys :
        /\ cache_tasks[t].op = "get"
        /\ cache_tasks[t].pc = "done"
        /\ ~cache_tasks[t].result.found
        /\ RedisLive(redis[k], utcnow)
        /\ k.text = NormalizeQueryText(cache_tasks[t].query.text)
        /\ k.user_id # cache_tasks[t].query.user_id
        /\ k.filters = FiltersOrEmpty(cache_tasks[t].query)

\* C23: under any interleaving of queries that share the cache no query
\* observes a lost update: the value a lookup takes from the memory cache is
\* the one last written for its key, which is the one Redis holds while it
\* holds one.
C23_NoLostUpdate ==
    [][\A t \in Tasks, q \in SharedQueries :
          (GetStart(t, q) /\ cache_tasks'[t].result.found) =>
              LET key == GenerateQueryCacheKey(q)
              IN  RedisLive(redis[key], utcnow) =>
                      redis[key].value = cache_tasks'[t].result.value]_vars

\* C24: after start_proactive_management on a fresh lifecycle manager
\* exactly five background tasks are registered in lifecycle_tasks, and
\* stop_proactive_management cancels every one of them and returns only
\* after all five have finished.
C24_FiveTasksStoppedTogether ==
    starts = 1 =>
        /\ lifecycle_pc \in {"started", "gathering", "stopped"} =>
               /\ Len(lifecycle_tasks) = LifecycleLoops
               /\ \A i, j \in 1..Len(lifecycle_tasks) :
                      lifecycle_tasks[i] = lifecycle_tasks[j] => i = j
               /\ \A i \in 1..Len(lifecycle_tasks) :
                      bg_tasks[lifecycle_tasks[i]] # "none"
        /\ lifecycle_pc = "gathering" =>
               \A i \in 1..Len(lifecycle_tasks) :
                   bg_tasks[lifecycle_tasks[i]] \in {"cancelling", "finished"}
        /\ lifecycle_pc = "stopped" =>
               \A i \in 1..Len(lifecycle_tasks) :
                   bg_tasks[lifecycle_tasks[i]] = "finished"

\* The manager was started once and its stop has returned.
C24_Witness ==
    /\ starts = 1
    /\ lifecycle_pc = "stopped"
    /\ Len(lifecycle_tasks) = LifecycleLoops

\* C28: for any sequence of start_proactive_management and
\* stop_proactive_management calls, once a stop has returned no background
\* task created by any earlier start is still running.
C28_NoTaskOutlivesStop ==
    lifecycle_pc = "stopped" =>
        \A t \in BgTasks : bg_tasks[t] \in {"none", "finished"}

\* normalized.upper() holds the three pieces one after the other.
UpperContains(normalized, a, b, c) ==
    LET Upper(x) == CASE x = "drop" -> "DROP" [] x = "table" -> "TABLE" [] OTHER -> x
    IN  \E i \in 1..(Len(normalized) - 2) :
            /\ Upper(normalized[i]) = a
            /\ Upper(normalized[i + 1]) = b
            /\ Upper(normalized[i + 2]) = c

\* C25: for every input string _normalize_text returns, and the text it
\* returns contains neither "DROP TABLE", compared without regard to case,
\* nor "<script>".
C25_NormalizedTextIsSanitized ==
    (call.fn = "_normalize_text" /\ call.done) =>
        /\ ~UpperContains(call.normalized, "DROP", " ", "TABLE")
        /\ ~\E i \in 1..(Len(call.normalized) - 2) :
               /\ call.normalized[i] = "<"
               /\ call.normalized[i + 1] = "script"
               /\ call.normalized[i + 2] = ">"

\* C26: every result a per-source search contributes has passed the user's
\* permission check; a result whose check fails or raises is not returned.
C26_ReturnedResultsPassedCheck ==
    (call.fn = "_search_source" /\ call.done) =>
        \A i \in 1..Len(call.returned) : call.returned[i].check = "allow"

\* C27: on_message_activity sends exactly one reply for every message and
\* never lets an exception escape.
C27_OneReplyNoEscape ==
    (turns > 0 /\ bot_pc \in {"idle", "saving"}) => (Len(replies) = 1 /\ ~escaped)

\* C29: after add_admin_user or remove_admin_user has completed, every later
\* get_user_permissions of that user reports the new admin status: what a
\* call reported since the last change is the status of the admin list,
\* and no entry of the permission cache holds an older one.
C29_AdminChangeSeenByLaterCalls ==
    \A u \in DOMAIN reported :
        /\ reported[u].is_admin # "unknown" =>
               reported[u].is_admin = IF u \in admin_users THEN "yes" ELSE "no"
        /\ permission_cache[u].present =>
               permission_cache[u].is_admin = (u \in admin_users)

\* A user whose permissions were cached was made an admin, which dropped
\* the cached entry, and a later call reported the user as an admin.
C29_Witness ==
    \E u \in DOMAIN reported :
        /\ reported[u].dropped
        /\ reported[u].is_admin = "yes"
        /\ u \in admin_users

\* A SharePoint search request has been sent.
SharePointSent == last_search.client = "SharePoint" /\ last_search.reached = "http"

\* C30 as stated: a SharePoint search request is never sent with a token
\* that is past its recorded expiry or that an earlier search saw rejected
\* with 401.
C30_SentTokenUnexpired ==
    SharePointSent =>
        /\ last_search.token.sent_at < last_search.token.expires_at
        /\ ~last_search.token.rejected_before

\* C30 as amended: a search request is sent with the token the same search
\* has just been granted, whatever its recorded expiry, or with the cached
\* token while the clock is before its recorded expiry; never with a token
\* an earlier search saw rejected with 401, and no rejected token stays
\* cached, so the search after a 401 first requests a new token.
C30_SentTokenFreshOrUnexpired ==
    /\ SharePointSent =>
           /\ \/ last_search.token.requested
              \/ last_search.token.sent_at < last_search.token.expires_at
           /\ ~last_search.token.rejected_before
    /\ sp_token.access_token \notin sp_token.rejected

\* After a token was rejected with 401, a search was sent with a token it
\* had requested, which was recorded as expired as soon as it was stored.
C30_Witness ==
    /\ SharePointSent
    /\ last_search.token.requested
    /\ last_search.token.id > 1
    /\ (last_search.token.id - 1) \in sp_token.rejected
    /\ last_search.token.sent_at >= last_search.token.expires_at

====
